---- MODULE Spec2Model ----
(***************************************************************************)
(* Model of the interactive-button helpers of baileys-helper               *)
(* (src/src/helpers/buttons.ts, src/src/types/validation.ts,               *)
(* src/src/index.ts).                                                      *)
(*                                                                         *)
(* JavaScript values are tagged records; a JavaScript string is a sequence *)
(* of one-character strings so that length, the phone pattern and JSON     *)
(* serialisation are computed character by character.  An object is a      *)
(* function from property names to values; a property that is not in the   *)
(* domain reads as undefined.                                              *)
(***************************************************************************)
EXTENDS Integers, Sequences, FiniteSets, TLC

(***************************************************************************)
(* Bounds of the model.                                                    *)
(***************************************************************************)
MaxButtons == 2

NumCalls == 2

(***************************************************************************)
(* JavaScript values.                                                      *)
(***************************************************************************)
Undefined == [k |-> "undefined"]

Null == [k |-> "null"]

Str(cs) == [k |-> "string", s |-> cs]

Num(n) == [k |-> "number", n |-> n]

Bool(b) == [k |-> "boolean", b |-> b]

Obj(f) == [k |-> "object", f |-> f]

Arr(items) == [k |-> "array", items |-> items]

\* !v
Falsy(v) ==
  CASE v.k = "undefined" -> TRUE
    [] v.k = "null" -> TRUE
    [] v.k = "string" -> Len(v.s) = 0
    [] v.k = "number" -> v.n = 0
    [] v.k = "boolean" -> ~v.b
    [] OTHER -> FALSE

Truthy(v) == ~Falsy(v)

\* typeof v
TypeOf(v) ==
  CASE v.k = "undefined" -> "undefined"
    [] v.k = "string" -> "string"
    [] v.k = "number" -> "number"
    [] v.k = "boolean" -> "boolean"
    [] OTHER -> "object"

\* v.name throws a TypeError exactly when v is null or undefined
Nullish(v) == v.k \in {"undefined", "null"}

\* v.name for a value that is not null or undefined
Get(v, name) ==
  IF v.k = "object" /\ name \in DOMAIN v.f THEN v.f[name] ELSE Undefined

Digits == <<"0", "1", "2", "3", "4", "5", "6", "7", "8", "9">>

RECURSIVE NatChars(_)
NatChars(n) ==
  IF n < 10 THEN <<Digits[n + 1]>>
  ELSE NatChars(n \div 10) \o <<Digits[(n % 10) + 1]>>

\* String(v), the coercion RegExp.prototype.test applies to its argument
ToJSString(v) ==
  CASE v.k = "string" -> v.s
    [] v.k = "number" -> NatChars(v.n)
    [] v.k = "boolean" ->
         IF v.b THEN <<"t", "r", "u", "e">> ELSE <<"f", "a", "l", "s", "e">>
    [] v.k = "null" -> <<"n", "u", "l", "l">>
    [] v.k = "undefined" -> <<"u", "n", "d", "e", "f", "i", "n", "e", "d">>
    [] OTHER -> <<"[", "o", "b", "j", "e", "c", "t", "]">>

(***************************************************************************)
(* String literals of the source.                                          *)
(***************************************************************************)
QUICK_REPLY == Str(<<"q", "u", "i", "c", "k", "_", "r", "e", "p", "l", "y">>)

CTA_URL == Str(<<"c", "t", "a", "_", "u", "r", "l">>)

CTA_COPY == Str(<<"c", "t", "a", "_", "c", "o", "p", "y">>)

CTA_CALL == Str(<<"c", "t", "a", "_", "c", "a", "l", "l">>)

CTA_CATALOG == Str(<<"c", "t", "a", "_", "c", "a", "t", "a", "l", "o", "g">>)

CTA_REMINDER == Str(<<"c", "t", "a", "_", "r", "e", "m", "i", "n", "d", "e", "r">>)

CTA_CANCEL_REMINDER ==
  Str(<<"c", "t", "a", "_", "c", "a", "n", "c", "e", "l", "_",
        "r", "e", "m", "i", "n", "d", "e", "r">>)

ADDRESS_MESSAGE ==
  Str(<<"a", "d", "d", "r", "e", "s", "s", "_", "m", "e", "s", "s", "a", "g", "e">>)

SINGLE_SELECT ==
  Str(<<"s", "i", "n", "g", "l", "e", "_", "s", "e", "l", "e", "c", "t">>)

(***************************************************************************)
(* getButtonType                                                           *)
(***************************************************************************)
\* mutant: the url check placed before the explicit type check
getButtonType_UrlFirst(button) ==
  IF Falsy(button) \/ TypeOf(button) # "object" THEN QUICK_REPLY
  ELSE IF Truthy(Get(button, "url")) THEN CTA_URL
  ELSE IF Truthy(Get(button, "type")) THEN Get(button, "type")
  ELSE IF Truthy(Get(button, "copyText")) THEN CTA_COPY
  ELSE IF Truthy(Get(button, "phoneNumber")) THEN CTA_CALL
  ELSE IF Truthy(Get(button, "catalogLink")) THEN CTA_CATALOG
  ELSE IF Truthy(Get(button, "reminderText")) THEN CTA_REMINDER
  ELSE IF Truthy(Get(button, "reminderId")) THEN CTA_CANCEL_REMINDER
  ELSE IF Truthy(Get(button, "addressId")) THEN ADDRESS_MESSAGE
  ELSE IF Truthy(Get(button, "options")) THEN SINGLE_SELECT
  ELSE QUICK_REPLY

\* mutant: the phoneNumber check placed before the copyText check
getButtonType_CallBeforeCopy(button) ==
  IF Falsy(button) \/ TypeOf(button) # "object" THEN QUICK_REPLY
  ELSE IF Truthy(Get(button, "type")) THEN Get(button, "type")
  ELSE IF Truthy(Get(button, "url")) THEN CTA_URL
  ELSE IF Truthy(Get(button, "phoneNumber")) THEN CTA_CALL
  ELSE IF Truthy(Get(button, "copyText")) THEN CTA_COPY
  ELSE IF Truthy(Get(button, "catalogLink")) THEN CTA_CATALOG
  ELSE IF Truthy(Get(button, "reminderText")) THEN CTA_REMINDER
  ELSE IF Truthy(Get(button, "reminderId")) THEN CTA_CANCEL_REMINDER
  ELSE IF Truthy(Get(button, "addressId")) THEN ADDRESS_MESSAGE
  ELSE IF Truthy(Get(button, "options")) THEN SINGLE_SELECT
  ELSE QUICK_REPLY

getButtonType(button) ==
  IF Falsy(button) \/ TypeOf(button) # "object" THEN QUICK_REPLY
  ELSE IF Truthy(Get(button, "type")) THEN Get(button, "type")
  ELSE IF Truthy(Get(button, "url")) THEN CTA_URL
  ELSE IF Truthy(Get(button, "copyText")) THEN CTA_COPY
  ELSE IF Truthy(Get(button, "phoneNumber")) THEN CTA_CALL
  ELSE IF Truthy(Get(button, "catalogLink")) THEN CTA_CATALOG
  ELSE IF Truthy(Get(button, "reminderText")) THEN CTA_REMINDER
  ELSE IF Truthy(Get(button, "reminderId")) THEN CTA_CANCEL_REMINDER
  ELSE IF Truthy(Get(button, "addressId")) THEN ADDRESS_MESSAGE
  ELSE IF Truthy(Get(button, "options")) THEN SINGLE_SELECT
  ELSE QUICK_REPLY

(***************************************************************************)
(* isValidButtonId                                                         *)
(***************************************************************************)
MaxIdLength == 64

\* mutant: the upper bound of the length made exclusive
isValidButtonId_ExclusiveMax(id) ==
  TypeOf(id) = "string" /\ Len(id.s) > 0 /\ Len(id.s) < MaxIdLength

isValidButtonId(id) ==
  TypeOf(id) = "string" /\ Len(id.s) > 0 /\ Len(id.s) <= MaxIdLength

(***************************************************************************)
(* /^\+?[1-9]\d{1,14}$/.test(v)                                            *)
(***************************************************************************)
DigitChars == {Digits[i] : i \in 1..10}

PhonePatternTest(v) ==
  LET cs == ToJSString(v)
      rest == IF Len(cs) > 0 /\ cs[1] = "+" THEN Tail(cs) ELSE cs
  IN /\ Len(rest) >= 2
     /\ Len(rest) <= 15
     /\ rest[1] \in DigitChars \ {"0"}
     /\ \A i \in 2..Len(rest) : rest[i] \in DigitChars

(***************************************************************************)
(* validateInteractiveMessage                                              *)
(***************************************************************************)
ValidationError(path, message, expected, value) ==
  [path |-> path, message |-> message, expected |-> expected, value |-> value]

ButtonPath(index, field) == "buttons[" \o ToString(index) \o "]." \o field

\* case 'cta_url'
\* mutant: the typeof test of the url left out
UrlErrors_TruthyOnly(button, index) ==
  IF Falsy(Get(button, "url"))
  THEN <<ValidationError(ButtonPath(index, "url"),
           "URL button requires a valid URL string",
           "string (URL format)", Get(button, "url"))>>
  ELSE <<>>

UrlErrors(button, index) ==
  IF Falsy(Get(button, "url")) \/ TypeOf(Get(button, "url")) # "string"
  THEN <<ValidationError(ButtonPath(index, "url"),
           "URL button requires a valid URL string",
           "string (URL format)", Get(button, "url"))>>
  ELSE <<>>

\* case 'cta_call'
CallErrors(button, index) ==
  IF Falsy(Get(button, "phoneNumber"))
       \/ ~PhonePatternTest(Get(button, "phoneNumber"))
  THEN <<ValidationError(ButtonPath(index, "phoneNumber"),
           "Call button requires a valid phone number",
           "string (E.164 format)", Get(button, "phoneNumber"))>>
  ELSE <<>>

\* case 'cta_copy'
CopyErrors(button, index) ==
  IF Falsy(Get(button, "copyText")) \/ TypeOf(Get(button, "copyText")) # "string"
  THEN <<ValidationError(ButtonPath(index, "copyText"),
           "Copy button requires copyText string",
           "string", Get(button, "copyText"))>>
  ELSE <<>>

\* the errors the forEach callback pushes for one button (never null/undefined)
ButtonErrors(button, index) ==
  LET idErr ==
        IF ~isValidButtonId(Get(button, "id"))
        THEN <<ValidationError(ButtonPath(index, "id"),
                 "Button ID must be a non-empty string (max 64 chars)",
                 "string (1-64 chars)", Get(button, "id"))>>
        ELSE <<>>
      titleErr ==
        IF Falsy(Get(button, "title")) \/ TypeOf(Get(button, "title")) # "string"
        THEN <<ValidationError(ButtonPath(index, "title"),
                 "Button title is required and must be a string",
                 "string", Get(button, "title"))>>
        ELSE <<>>
      buttonType == getButtonType(button)
      typeErr ==
        CASE buttonType = CTA_URL -> UrlErrors(button, index)
          [] buttonType = CTA_CALL -> CallErrors(button, index)
          [] buttonType = CTA_COPY -> CopyErrors(button, index)
          [] OTHER -> <<>>
  IN idErr \o titleErr \o typeErr

\* mutant: the loop ends at the first button that produced an error
RECURSIVE ForEachButton_StopsAtFirstError(_, _, _)
ForEachButton_StopsAtFirstError(items, index, errors) ==
  IF index >= Len(items) THEN [threw |-> FALSE, errors |-> errors]
  ELSE IF Nullish(items[index + 1]) THEN [threw |-> TRUE, errors |-> errors]
  ELSE IF Len(ButtonErrors(items[index + 1], index)) > 0
    THEN [threw |-> FALSE,
          errors |-> errors \o ButtonErrors(items[index + 1], index)]
  ELSE ForEachButton_StopsAtFirstError(items, index + 1, errors)

\* buttons.forEach(...): index is the 0-based index of the next element;
\* reading button.id of a null or undefined element throws
RECURSIVE ForEachButton(_, _, _)
ForEachButton(items, index, errors) ==
  IF index >= Len(items) THEN [threw |-> FALSE, errors |-> errors]
  ELSE IF Nullish(items[index + 1]) THEN [threw |-> TRUE, errors |-> errors]
  ELSE ForEachButton(items, index + 1,
                     errors \o ButtonErrors(items[index + 1], index))

Threw(name) == [outcome |-> "threw", error |-> [name |-> name]]

Returned(value) == [outcome |-> "returned", value |-> value]

\* the body check; config is not null or undefined
BodyErrors(config) ==
  IF Falsy(Get(config, "body")) \/ TypeOf(Get(config, "body")) # "string"
  THEN <<ValidationError("body",
           "Body text is required and must be a string",
           "string", Get(config, "body"))>>
  ELSE <<>>

\* mutant: only the Array.isArray test, an empty array is accepted
ButtonsErrors_ArrayOnly(buttons) ==
  IF buttons.k # "array"
  THEN <<ValidationError("buttons",
           "At least one button is required",
           "array with minimum 1 item", buttons)>>
  ELSE <<>>

\* the check of the buttons collection
ButtonsErrors(buttons) ==
  IF buttons.k # "array" \/ Len(buttons.items) = 0
  THEN <<ValidationError("buttons",
           "At least one button is required",
           "array with minimum 1 item", buttons)>>
  ELSE <<>>

\* mutant: a single error still counts as valid
ValidationResult_OffByOne(errors, warnings) ==
  [isValid |-> Len(errors) <= 1, errors |-> errors, warnings |-> warnings]

\* the object literal of the return statement
ValidationResult(errors, warnings) ==
  [isValid |-> Len(errors) = 0, errors |-> errors, warnings |-> warnings]

\* reading config.body of a null or undefined config throws; buttons.forEach
\* throws when buttons is not an array
validateInteractiveMessage(config, buttons) ==
  IF Nullish(config) THEN Threw("TypeError")
  ELSE IF buttons.k # "array" THEN Threw("TypeError")
  ELSE LET each == ForEachButton(buttons.items, 0,
                                 BodyErrors(config) \o ButtonsErrors(buttons))
       IN IF each.threw THEN Threw("TypeError")
          ELSE Returned(ValidationResult(each.errors, <<>>))

(***************************************************************************)
(* JSON.stringify                                                          *)
(***************************************************************************)
\* the property names that are serialised, in the insertion order of the
\* object literals of the source, with their characters
PropertyOrder ==
  <<[name |-> "id", chars |-> <<"i", "d">>],
    [name |-> "title", chars |-> <<"t", "i", "t", "l", "e">>],
    [name |-> "subtitle", chars |-> <<"s", "u", "b", "t", "i", "t", "l", "e">>],
    [name |-> "disabled", chars |-> <<"d", "i", "s", "a", "b", "l", "e", "d">>],
    [name |-> "displayText",
     chars |-> <<"d", "i", "s", "p", "l", "a", "y", "T", "e", "x", "t">>],
    [name |-> "type", chars |-> <<"t", "y", "p", "e">>],
    [name |-> "url", chars |-> <<"u", "r", "l">>],
    [name |-> "copyText", chars |-> <<"c", "o", "p", "y", "T", "e", "x", "t">>],
    [name |-> "phoneNumber",
     chars |-> <<"p", "h", "o", "n", "e", "N", "u", "m", "b", "e", "r">>]>>

RECURSIVE QuoteChars(_)
QuoteChars(cs) ==
  IF Len(cs) = 0 THEN <<>>
  ELSE (IF Head(cs) \in {"\"", "\\"} THEN <<"\\", Head(cs)>> ELSE <<Head(cs)>>)
       \o QuoteChars(Tail(cs))

RECURSIVE JSONText(_)
RECURSIVE JSONMembers(_, _, _)
\* the members of object v from position i of PropertyOrder on; a property
\* whose value is undefined is left out
JSONMembers(v, i, first) ==
  IF i > Len(PropertyOrder) THEN <<>>
  ELSE LET name == PropertyOrder[i].name
       IN IF name \notin DOMAIN v.f \/ v.f[name].k = "undefined"
          THEN JSONMembers(v, i + 1, first)
          ELSE (IF first THEN <<>> ELSE <<",">>)
               \o <<"\"">> \o PropertyOrder[i].chars \o <<"\"", ":">>
               \o JSONText(v.f[name])
               \o JSONMembers(v, i + 1, FALSE)

JSONText(v) ==
  CASE v.k = "string" -> <<"\"">> \o QuoteChars(v.s) \o <<"\"">>
    [] v.k = "number" -> NatChars(v.n)
    [] v.k = "boolean" -> ToJSString(v)
    [] v.k = "null" -> ToJSString(v)
    [] v.k = "object" -> <<"{">> \o JSONMembers(v, 1, TRUE) \o <<"}">>
    [] OTHER -> <<"[", "]">>

JSONstringify(v) == Str(JSONText(v))

(***************************************************************************)
(* buildInteractiveButtons                                                 *)
(***************************************************************************)
\* a || b
OrElse(a, b) == IF Truthy(a) THEN a ELSE b

\* mutant: the button's own properties are spread into the params
ButtonParams_SpreadsButton(id, title, b) ==
  Obj([id |-> id,
       title |-> title,
       subtitle |-> OrElse(Get(b, "subtitle"), Null),
       disabled |-> OrElse(Get(b, "disabled"), Bool(FALSE))] @@ b.f)

\* mutant: the subtitle is not copied into the params
ButtonParams_DropsSubtitle(id, title, b) ==
  Obj([id |-> id,
       title |-> title,
       subtitle |-> Null,
       disabled |-> OrElse(Get(b, "disabled"), Bool(FALSE))])

\* the params object literal of rules 2 and 3
ButtonParams(id, title, b) ==
  Obj([id |-> id,
       title |-> title,
       subtitle |-> OrElse(Get(b, "subtitle"), Null),
       disabled |-> OrElse(Get(b, "disabled"), Bool(FALSE))])

NativeFlowEntry(name, buttonParamsJson) ==
  Obj([name |-> name, buttonParamsJson |-> buttonParamsJson])

\* mutant: the legacy shape is tested before the native_flow shape
NormalizeButton_LegacyFirst(b) ==
  IF Falsy(b) THEN b
  ELSE IF Truthy(Get(b, "id")) /\ Truthy(Get(b, "title"))
    THEN NativeFlowEntry(getButtonType(b),
           JSONstringify(ButtonParams(Get(b, "id"), Get(b, "title"), b)))
  ELSE IF Truthy(Get(b, "name")) /\ Truthy(Get(b, "buttonParamsJson")) THEN b
  ELSE IF Truthy(Get(b, "buttonId")) /\ Truthy(Get(b, "buttonText"))
    THEN NativeFlowEntry(getButtonType(b),
           JSONstringify(ButtonParams(Get(b, "buttonId"),
             OrElse(Get(Get(b, "buttonText"), "displayText"), Get(b, "buttonText")),
             b)))
  ELSE b

\* mutant: the callback has no final return, so other shapes map to undefined
NormalizeButton_NoPassThrough(b) ==
  IF Falsy(b) THEN Undefined
  ELSE IF Truthy(Get(b, "name")) /\ Truthy(Get(b, "buttonParamsJson")) THEN b
  ELSE IF Truthy(Get(b, "id")) /\ Truthy(Get(b, "title"))
    THEN NativeFlowEntry(getButtonType(b),
           JSONstringify(ButtonParams(Get(b, "id"), Get(b, "title"), b)))
  ELSE IF Truthy(Get(b, "buttonId")) /\ Truthy(Get(b, "buttonText"))
    THEN NativeFlowEntry(getButtonType(b),
           JSONstringify(ButtonParams(Get(b, "buttonId"),
             OrElse(Get(Get(b, "buttonText"), "displayText"), Get(b, "buttonText")),
             b)))
  ELSE Undefined

\* the callback of buttons.map
NormalizeButton(b) ==
  IF Falsy(b) THEN b
  ELSE IF Truthy(Get(b, "name")) /\ Truthy(Get(b, "buttonParamsJson")) THEN b
  ELSE IF Truthy(Get(b, "id")) /\ Truthy(Get(b, "title"))
    THEN NativeFlowEntry(getButtonType(b),
           JSONstringify(ButtonParams(Get(b, "id"), Get(b, "title"), b)))
  ELSE IF Truthy(Get(b, "buttonId")) /\ Truthy(Get(b, "buttonText"))
    THEN NativeFlowEntry(getButtonType(b),
           JSONstringify(ButtonParams(Get(b, "buttonId"),
             OrElse(Get(Get(b, "buttonText"), "displayText"), Get(b, "buttonText")),
             b)))
  ELSE b

\* mutant: null and undefined entries are filtered out before the map
buildInteractiveButtons_DropsFalsy(buttons) ==
  CASE buttons.k = "undefined" -> Returned(Arr(<<>>))
    [] buttons.k = "array" ->
         LET kept == SelectSeq(buttons.items, Truthy)
         IN Returned(Arr([i \in 1..Len(kept) |-> NormalizeButton(kept[i])]))
    [] OTHER -> Threw("TypeError")

buildInteractiveButtons(buttons) ==
  CASE buttons.k = "undefined" -> Returned(Arr(<<>>))
    [] buttons.k = "array" ->
         Returned(Arr([i \in 1..Len(buttons.items) |->
                         NormalizeButton(buttons.items[i])]))
    [] OTHER -> Threw("TypeError")

(***************************************************************************)
(* buildMessageContent                                                     *)
(***************************************************************************)
\* mutant: an unrecognised media type is coded as an image
MediaTypeCode_DefaultImage(mediaType) ==
  IF mediaType = Str(<<"v", "i", "d", "e", "o">>) THEN Num(2)
  ELSE IF mediaType = Str(<<"d", "o", "c", "u", "m", "e", "n", "t">>) THEN Num(3)
  ELSE Num(1)

MediaTypeCode(mediaType) ==
  IF mediaType = Str(<<"i", "m", "a", "g", "e">>) THEN Num(1)
  ELSE IF mediaType = Str(<<"v", "i", "d", "e", "o">>) THEN Num(2)
  ELSE Num(3)

\* a record as a function that can be extended with further properties
Props(r) == [n \in DOMAIN r |-> r[n]]

\* mutant: the footer is added whether or not config.footer is set
MessageParams_FooterAlways(config) ==
  LET body == Props([body |-> [text |-> Get(config, "body")]])
      footer ==
        Props([footer |-> [text |-> Get(config, "footer")]])
      textHeader ==
        IF Truthy(Get(config, "headerText"))
        THEN Props([header |->
               Props([type |-> OrElse(Get(config, "headerType"), Num(1)),
                      text |-> Get(config, "headerText")])])
        ELSE <<>>
      media == Get(config, "headerMedia")
      mediaHeader ==
        IF Truthy(media)
        THEN Props([header |->
               Props([type |-> MediaTypeCode(Get(media, "mediaType")),
                      text |-> OrElse(Get(config, "headerText"), Str(<<>>)),
                      media |-> [url |-> Get(media, "mediaUrl"),
                                 caption |-> OrElse(Get(media, "mediaCaption"),
                                                    Str(<<>>))]])])
        ELSE <<>>
  IN mediaHeader @@ textHeader @@ footer @@ body

\* mutant: the text header always has type 1
MessageParams_IgnoresHeaderType(config) ==
  LET body == Props([body |-> [text |-> Get(config, "body")]])
      footer ==
        IF Truthy(Get(config, "footer"))
        THEN Props([footer |-> [text |-> Get(config, "footer")]])
        ELSE <<>>
      textHeader ==
        IF Truthy(Get(config, "headerText"))
        THEN Props([header |->
               Props([type |-> Num(1),
                      text |-> Get(config, "headerText")])])
        ELSE <<>>
      media == Get(config, "headerMedia")
      mediaHeader ==
        IF Truthy(media)
        THEN Props([header |->
               Props([type |-> MediaTypeCode(Get(media, "mediaType")),
                      text |-> OrElse(Get(config, "headerText"), Str(<<>>)),
                      media |-> [url |-> Get(media, "mediaUrl"),
                                 caption |-> OrElse(Get(media, "mediaCaption"),
                                                    Str(<<>>))]])])
        ELSE <<>>
  IN mediaHeader @@ textHeader @@ footer @@ body

MessageParams(config) ==
  LET body == Props([body |-> [text |-> Get(config, "body")]])
      footer ==
        IF Truthy(Get(config, "footer"))
        THEN Props([footer |-> [text |-> Get(config, "footer")]])
        ELSE <<>>
      textHeader ==
        IF Truthy(Get(config, "headerText"))
        THEN Props([header |->
               Props([type |-> OrElse(Get(config, "headerType"), Num(1)),
                      text |-> Get(config, "headerText")])])
        ELSE <<>>
      media == Get(config, "headerMedia")
      mediaHeader ==
        IF Truthy(media)
        THEN Props([header |->
               Props([type |-> MediaTypeCode(Get(media, "mediaType")),
                      text |-> OrElse(Get(config, "headerText"), Str(<<>>)),
                      media |-> [url |-> Get(media, "mediaUrl"),
                                 caption |-> OrElse(Get(media, "mediaCaption"),
                                                    Str(<<>>))]])])
        ELSE <<>>
  IN mediaHeader @@ textHeader @@ footer @@ body

buildMessageContent(config, buttons) ==
  IF buttons.k # "array" \/ \E i \in 1..Len(buttons.items) : Nullish(buttons.items[i])
    THEN Threw("TypeError")
  ELSE IF Nullish(config) THEN Threw("TypeError")
  ELSE Returned(
    [interactive |->
      [nativeFlow |->
        [buttons |-> [i \in 1..Len(buttons.items) |->
                        [name |-> Get(buttons.items[i], "name"),
                         buttonParamsJson |->
                           Get(buttons.items[i], "buttonParamsJson")]],
         messageParams |-> MessageParams(config)]]])

(***************************************************************************)
(* InteractiveValidationError (src/src/types/validation.ts)                *)
(***************************************************************************)
\* the constructor; example is undefined when the caller omits it
InteractiveValidationError(message, context, errors, warnings, example) ==
  [name |-> "InteractiveValidationError",
   message |-> message,
   context |-> context,
   errors |-> errors,
   warnings |-> warnings,
   example |-> example]

\* mutant: the new context is put in front of the chain
addContext_Prepends(this, context) ==
  InteractiveValidationError(this.message \o " in " \o context,
                             context \o " -> " \o this.context,
                             this.errors, this.warnings, this.example)

addContext(this, context) ==
  InteractiveValidationError(this.message \o " in " \o context,
                             this.context \o " -> " \o context,
                             this.errors, this.warnings, this.example)

(***************************************************************************)
(* Inputs.                                                                 *)
(***************************************************************************)
CallIds == 1..NumCalls

Providers == <<"baileys", "@whiskeysockets/baileys", "@adiwajshing/baileys">>

StrA == Str(<<"a">>)

StrB == Str(<<"b">>)

TitleA == Str(<<"A">>)

Str64 == Str([i \in 1..64 |-> "a"])

Str65 == Str([i \in 1..65 |-> "a"])

UrlX == Str(<<"h", "t", "t", "p", "s", ":", "/", "/", "x">>)

Phone1234567890 == Str(<<"+", "1", "2", "3", "4", "5", "6", "7", "8", "9", "0">>)

Phone18005550123 ==
  Str(<<"+", "1", "8", "0", "0", "5", "5", "5", "0", "1", "2", "3">>)

Phone123 == Str(<<"1", "2", "3">>)

PhoneAbc == Str(<<"a", "b", "c">>)

PhoneInvalid ==
  Str(<<"i", "n", "v", "a", "l", "i", "d", "-", "p", "h", "o", "n", "e">>)

\* values tried as a button id and as the argument of isValidButtonId
IdValues ==
  {Undefined, Null, Str(<<>>), StrA, StrB, Str64, Str65, Num(123), Num(0),
   Bool(TRUE), Obj(<<>>)}

PhoneValues ==
  {Undefined, Null, Str(<<>>), Phone1234567890, Phone18005550123, Phone123,
   PhoneAbc, PhoneInvalid, Num(12345), Num(7), Num(0),
   Str(<<"+">>), Str(<<"7">>), Str(<<"0", "1", "2">>), Str(<<"+", "4", "2">>),
   Str(<<"1", "2", "+">>), Str(<<"+", "+", "1", "2">>),
   Str(<<"+", "1", "-", "8", "0", "0">>),
   Str([i \in 1..15 |-> "1"]), Str([i \in 1..16 |-> "1"]),
   Str(<<"+">> \o [i \in 1..15 |-> "1"]), Str(<<"+">> \o [i \in 1..16 |-> "1"])}

TextValues == {Undefined, Null, Str(<<>>), UrlX, Num(5)}

TypeValues ==
  {Undefined, Null, Str(<<>>), Num(0), Bool(FALSE), Num(7),
   QUICK_REPLY, CTA_URL, CTA_CALL, CTA_COPY, SINGLE_SELECT,
   Str(<<"m", "p", "m">>)}

\* an object literal written by a caller; a property given as undefined is
\* the same as a property left out
Literal(f) == Obj([n \in {m \in DOMAIN f : f[m] # Undefined} |-> f[n]])

\* buttons that occur at every position of the button lists
ListPool ==
  {Literal([id |-> StrA, title |-> TitleA]),
   Literal([id |-> StrB, title |-> Str(<<"B">>)]),
   Literal([id |-> Str(<<>>), title |-> TitleA]),
   Literal([id |-> StrA]),
   Obj(<<>>),
   Literal([id |-> StrA, title |-> TitleA, url |-> UrlX]),
   Literal([id |-> StrA, title |-> TitleA, type |-> CTA_URL]),
   Literal([id |-> StrB, title |-> TitleA, phoneNumber |-> Phone1234567890]),
   Literal([id |-> StrB, title |-> TitleA, phoneNumber |-> PhoneAbc]),
   Literal([id |-> Str(<<>>), title |-> Str(<<>>), type |-> CTA_COPY]),
   Null,
   Num(5)}

\* buttons that occur in one-element lists and as arguments of getButtonType
ButtonPool ==
  ListPool
  \cup {Literal([id |-> v, title |-> TitleA]) : v \in IdValues}
  \cup {Literal([id |-> StrA, title |-> v]) : v \in TextValues}
  \cup {Literal([id |-> StrA, title |-> TitleA, type |-> t, url |-> v]) :
          t \in {Undefined, CTA_URL}, v \in TextValues}
  \cup {Literal([id |-> StrA, title |-> TitleA, type |-> t, copyText |-> v]) :
          t \in {Undefined, CTA_COPY}, v \in TextValues}
  \cup {Literal([id |-> StrA, title |-> TitleA, type |-> t, phoneNumber |-> v]) :
          t \in {Undefined, CTA_CALL}, v \in PhoneValues}
  \cup {Literal([id |-> StrA, title |-> TitleA, type |-> t,
                url |-> u, phoneNumber |-> v]) :
          t \in TypeValues, u \in {Undefined, UrlX},
          v \in {Undefined, Phone1234567890}}
  \cup {Literal([id |-> StrA, title |-> TitleA, type |-> t, options |-> Arr(<<>>)]) :
          t \in {Undefined, CTA_URL}}
  \cup {Literal([id |-> Str(<<>>), type |-> t]) :
          t \in {QUICK_REPLY, SINGLE_SELECT, Str(<<"m", "p", "m">>)}}
  \cup {Undefined, Str(<<"x">>), Arr(<<>>),
        Literal([name |-> QUICK_REPLY, buttonParamsJson |-> Str(<<"{", "}">>)]),
        Literal([buttonId |-> StrA,
                buttonText |-> Literal([displayText |-> TitleA])]),
        Literal([catalogLink |-> UrlX]),
        Literal([reminderText |-> UrlX]),
        Literal([reminderId |-> StrA]),
        Literal([addressId |-> StrA])}

\* the fields getButtonType looks at, in the order of its checks
DetectedFields ==
  <<"url", "copyText", "phoneNumber", "catalogLink", "reminderText",
    "reminderId", "addressId", "options">>

\* an object without `type` that has field i and field j of DetectedFields
\* (one field when i = j), field i holding v
FieldPair(i, j, v) ==
  Obj([n \in {DetectedFields[i], DetectedFields[j]} |->
         IF n = DetectedFields[i] THEN v ELSE StrA])

\* the arguments of getButtonType
ClassifierPool ==
  ButtonPool
  \cup {FieldPair(i, j, v) : i \in 1..Len(DetectedFields),
                             j \in 1..Len(DetectedFields),
                             v \in {StrA, Str(<<>>), Null, Num(0)}}
  \cup {Num(0), Bool(TRUE), Null}

SeqsUpTo(S, n) == UNION {[1..m -> S] : m \in 0..n}

ButtonLists == SeqsUpTo(ListPool, MaxButtons) \cup {<<b>> : b \in ButtonPool}

\* the values passed as the `buttons` argument
ButtonsValues ==
  {Arr(l) : l \in ButtonLists} \cup {Undefined, Null, Str(<<"x">>), Obj(<<>>)}

BodyX == Str(<<"x">>)

ParamsJson == Str(<<"{", "}">>)

\* the entries the normalizer is given in one-element lists
NormalizePool ==
  {Literal([name |-> n, buttonParamsJson |-> j, id |-> i, title |-> t]) :
     n \in {QUICK_REPLY, Str(<<>>)}, j \in {ParamsJson, Str(<<>>)},
     i \in {Undefined, StrA}, t \in {Undefined, TitleA}}
  \cup {Literal([name |-> QUICK_REPLY, buttonParamsJson |-> ParamsJson,
                 buttonId |-> StrA, buttonText |-> TitleA]),
        Literal([name |-> QUICK_REPLY])}
  \cup {Literal([id |-> StrA, title |-> TitleA, subtitle |-> u, disabled |-> d]) :
          u \in {Undefined, Null, Str(<<>>), Str(<<"s">>)},
          d \in {Undefined, Bool(FALSE), Bool(TRUE), Num(0)}}
  \cup {Literal([id |-> i, title |-> t, url |-> UrlX]) :
          i \in {Undefined, Str(<<>>), StrA, Num(0), Num(7)},
          t \in {Undefined, Str(<<>>), TitleA}}
  \cup {Literal([buttonId |-> i, buttonText |-> t, subtitle |-> u]) :
          i \in {Undefined, Str(<<>>), StrA},
          t \in {Undefined, Str(<<>>), TitleA, Obj(<<>>),
                 Literal([displayText |-> TitleA]),
                 Literal([displayText |-> Str(<<>>)])},
          u \in {Undefined, Str(<<"s">>)}}
  \cup {Literal([id |-> StrA, text |-> TitleA]),
        Literal([id |-> Str(<<>>), title |-> TitleA, buttonId |-> StrB,
                 buttonText |-> TitleA]),
        Obj(<<>>), Null, Undefined, Num(5), Num(0), Str(<<"x">>)}

\* the entries that occur at every position of the normalizer's lists
NormalizeListPool ==
  {Literal([name |-> QUICK_REPLY, buttonParamsJson |-> ParamsJson]),
   Literal([id |-> StrA, title |-> TitleA]),
   Literal([id |-> StrB, title |-> TitleA, subtitle |-> Str(<<"s">>),
            phoneNumber |-> Phone1234567890]),
   Literal([buttonId |-> StrA, buttonText |-> Literal([displayText |-> TitleA])]),
   Obj(<<>>),
   Null}

\* the values passed to buildInteractiveButtons
NormalizeValues ==
  {Arr(l) : l \in SeqsUpTo(NormalizeListPool, MaxButtons)}
  \cup {Arr(<<b>>) : b \in NormalizePool}
  \cup {Undefined, Null, Obj(<<>>)}

\* the values passed as the `config` argument
ConfigValues ==
  {Undefined,
   Obj(<<>>),
   Literal([body |-> Str(<<>>)]),
   Literal([body |-> Num(5)]),
   Literal([body |-> BodyX]),
   Literal([body |-> BodyX, footer |-> Str(<<"f">>), headerText |-> Str(<<"H">>)])}

\* the arguments of the direct calls of sendInteractiveMessage
SendPool ==
  {Literal([id |-> StrA, title |-> TitleA]),
   Literal([id |-> Str(<<>>), title |-> TitleA]),
   Literal([name |-> QUICK_REPLY, buttonParamsJson |-> Str(<<"{", "}">>)]),
   Null}

SendButtonsValues ==
  {Arr(l) : l \in SeqsUpTo(SendPool, MaxButtons)} \cup {Undefined, Null}

SendConfigValues ==
  {Undefined, Obj(<<>>), Literal([body |-> BodyX, footer |-> Str(<<"f">>)])}

\* the headerMedia values of the configs given to buildMessageContent
MediaValues ==
  {Undefined, Null,
   Literal([mediaType |-> Str(<<"i", "m", "a", "g", "e">>), mediaUrl |-> UrlX]),
   Literal([mediaType |-> Str(<<"v", "i", "d", "e", "o">>), mediaUrl |-> UrlX]),
   Literal([mediaType |-> Str(<<"v", "i", "d", "e", "o">>), mediaUrl |-> UrlX,
            mediaCaption |-> Str(<<>>)]),
   Literal([mediaType |-> Str(<<"d", "o", "c", "u", "m", "e", "n", "t">>),
            mediaUrl |-> UrlX, mediaCaption |-> Str(<<"c">>)]),
   Literal([mediaType |-> Str(<<"a", "u", "d", "i", "o">>), mediaUrl |-> UrlX]),
   Literal([mediaUrl |-> UrlX])}

\* the configs given to buildMessageContent
AssembleConfigValues ==
  {Literal([body |-> BodyX, footer |-> f, headerText |-> h, headerType |-> t,
            headerMedia |-> m]) :
     f \in {Undefined, Str(<<>>), Str(<<"f">>)},
     h \in {Undefined, Str(<<>>), Str(<<"H">>)},
     t \in {Undefined, Num(0), Num(1), Num(2), Num(7)},
     m \in MediaValues}
  \cup {Undefined, Null, Obj(<<>>), Literal([body |-> Num(5)]),
        Literal([body |-> Str(<<>>), footer |-> Str(<<"f">>)])}

\* the entry lists given to buildMessageContent
AssembleButtonsValues ==
  {Arr(<<>>),
   Arr(<<NativeFlowEntry(QUICK_REPLY, ParamsJson)>>),
   Arr(<<NativeFlowEntry(CTA_URL, ParamsJson),
         Literal([name |-> QUICK_REPLY, buttonParamsJson |-> ParamsJson,
                  id |-> StrA, title |-> TitleA])>>),
   Arr(<<Literal([id |-> StrA, text |-> TitleA])>>),
   Arr(<<Null>>),
   Undefined}

\* the body and footer arguments of sendButtons
SendBodyValues == {BodyX, Str(<<>>), Undefined}

SendFooterValues == {Undefined, Str(<<"f">>)}

\* the context strings given to addContext
ContextValues == {"nested_function", "outer"}

\* errors as the library constructs them: the one sendInteractiveButtonsBasic
\* throws, the one createConfigValidationError returns, and one with a warning
ConstructedErrors ==
  {InteractiveValidationError(
     "Invalid interactive message configuration",
     "sendInteractiveButtonsBasic",
     validateInteractiveMessage(Obj(<<>>), Arr(<<>>)).value.errors,
     <<>>, Undefined),
   InteractiveValidationError(
     "Invalid message configuration: body",
     "config_validation",
     <<ValidationError("config.body", "Body is required", "string", Undefined)>>,
     <<>>,
     Literal([body |-> BodyX, headerType |-> Num(1)])),
   InteractiveValidationError(
     "Invalid interactive message configuration",
     "custom",
     <<>>,
     <<[path |-> "footer", message |-> "Footer is long"]>>,
     Undefined)}

\* the receivers of addContext: constructed errors and errors that an earlier
\* addContext call returned
ErrorValues ==
  ConstructedErrors
  \cup {addContext(e, context) : e \in ConstructedErrors, context \in ContextValues}

\* the arguments of the send calls that run concurrently: two valid ones with
\* different configs and button lists, and an invalid one
ConcurrentSendValues ==
  {[config |-> Literal([body |-> BodyX, footer |-> Str(<<"f">>)]),
    buttons |-> Arr(<<Literal([id |-> StrA, title |-> TitleA])>>)],
   [config |-> Literal([body |-> BodyX]),
    buttons |-> Arr(<<Literal([id |-> StrB, title |-> TitleA, url |-> UrlX]),
                      Literal([id |-> StrA, title |-> TitleA,
                               subtitle |-> Str(<<"s">>)])>>)],
   [config |-> Literal([body |-> Str(<<>>)]),
    buttons |-> Arr(<<Literal([id |-> Str(<<>>), title |-> TitleA])>>)]}

FormatValues ==
  {Undefined, Str(<<"c", "u", "r", "r", "e", "n", "t">>),
   Str(<<"l", "e", "g", "a", "c", "y">>), Str(<<"c", "u", "s", "t", "o", "m">>)}

(***************************************************************************)
(* State: one slot per call site.                                          *)
(***************************************************************************)
VARIABLES
  op,              \* the exported function running in the slot, or "none"
  args,            \* its arguments
  pc,              \* "idle", "running", "import1".."import3", "relaying", "done"
  result,          \* how the call ended: returned value or thrown error
  baileysModules,  \* the modules array of importBaileysModules
  probes,          \* the import() calls of this invocation, in order
  generated,       \* the generateWAMessageFromContent calls of this invocation
  relayed          \* the socket.relayMessage calls of this invocation

vars == <<op, args, pc, result, baileysModules, probes, generated, relayed>>

NoResult == [outcome |-> "none"]

NoArgs == [none |-> TRUE]

Init ==
  /\ op = [c \in CallIds |-> "none"]
  /\ args = [c \in CallIds |-> NoArgs]
  /\ pc = [c \in CallIds |-> "idle"]
  /\ result = [c \in CallIds |-> NoResult]
  /\ baileysModules = [c \in CallIds |-> <<>>]
  /\ probes = [c \in CallIds |-> <<>>]
  /\ generated = [c \in CallIds |-> <<>>]
  /\ relayed = [c \in CallIds |-> <<>>]

\* one call site at a time: a call starts when no slot is occupied
AllIdle == \A c \in CallIds : pc[c] = "idle"

\* a synchronous exported function runs to completion in one step
SyncCall(c, name, a, r) ==
  /\ AllIdle
  /\ op' = [op EXCEPT ![c] = name]
  /\ args' = [args EXCEPT ![c] = a]
  /\ pc' = [pc EXCEPT ![c] = "done"]
  /\ result' = [result EXCEPT ![c] = r]
  /\ UNCHANGED <<baileysModules, probes, generated, relayed>>

CallIsValidButtonId(c, id) ==
  SyncCall(c, "isValidButtonId", [id |-> id], Returned(Bool(isValidButtonId(id))))

CallGetButtonType(c, button) ==
  SyncCall(c, "getButtonType", [button |-> button], Returned(getButtonType(button)))

\* a function is entered with the caller's objects a as its arguments
Begin(c, name, a) ==
  /\ AllIdle
  /\ op' = [op EXCEPT ![c] = name]
  /\ args' = [args EXCEPT ![c] = a]
  /\ pc' = [pc EXCEPT ![c] = "running"]
  /\ UNCHANGED <<result, baileysModules, probes, generated, relayed>>

CallValidateInteractiveMessage(c, config, buttons) ==
  Begin(c, "validateInteractiveMessage", [config |-> config, buttons |-> buttons])

CallBuildInteractiveButtons(c, buttons) ==
  Begin(c, "buildInteractiveButtons", [buttons |-> buttons])

CallBuildMessageContent(c, config, buttons) ==
  Begin(c, "buildMessageContent", [config |-> config, buttons |-> buttons])

CallAddContext(c, this, context) ==
  Begin(c, "addContext", [this |-> this, context |-> context])

\* what the running function returns or throws
ResultOf(name, a) ==
  CASE name = "validateInteractiveMessage" ->
         validateInteractiveMessage(a.config, a.buttons)
    [] name = "buildInteractiveButtons" -> buildInteractiveButtons(a.buttons)
    [] name = "buildMessageContent" -> buildMessageContent(a.config, a.buttons)
    [] name = "addContext" -> Returned(addContext(a.this, a.context))

\* mutant: buildInteractiveButtons normalizes the caller's array in place
ArgumentsAfter_InPlace(name, a) ==
  IF name = "buildInteractiveButtons" /\ a.buttons.k = "array"
  THEN [a EXCEPT !.buttons =
          Arr([i \in 1..Len(a.buttons.items) |->
                 NormalizeButton(a.buttons.items[i])])]
  ELSE a

\* the caller's objects when the function has run: the functions assign only
\* to their own locals (errors, warnings, buttonParams, messageContent) and
\* Array.prototype.map builds a new array
ArgumentsAfter(name, a) == a

\* the running function runs to its end
Returns(c) ==
  /\ pc[c] = "running"
  /\ result' = [result EXCEPT ![c] = ResultOf(op[c], args[c])]
  /\ args' = [args EXCEPT ![c] = ArgumentsAfter(op[c], args[c])]
  /\ pc' = [pc EXCEPT ![c] = "done"]
  /\ UNCHANGED <<op, baileysModules, probes, generated, relayed>>

\* the caller has consumed the outcome; nothing of the invocation is kept
Settle(c) ==
  /\ pc[c] = "done"
  /\ op' = [op EXCEPT ![c] = "none"]
  /\ args' = [args EXCEPT ![c] = NoArgs]
  /\ pc' = [pc EXCEPT ![c] = "idle"]
  /\ result' = [result EXCEPT ![c] = NoResult]
  /\ baileysModules' = [baileysModules EXCEPT ![c] = <<>>]
  /\ probes' = [probes EXCEPT ![c] = <<>>]
  /\ generated' = [generated EXCEPT ![c] = <<>>]
  /\ relayed' = [relayed EXCEPT ![c] = <<>>]

(***************************************************************************)
(* sendInteractiveButtonsBasic and sendInteractiveMessage                  *)
(***************************************************************************)
EphemeralExpiration == 86400

CURRENT == Str(<<"c", "u", "r", "r", "e", "n", "t">>)

LEGACY == Str(<<"l", "e", "g", "a", "c", "y">>)

Jid == "jid@s.whatsapp.net"

\* the call ends: the promise is fulfilled or rejected with r
Ends(c, r) ==
  /\ pc' = [pc EXCEPT ![c] = "done"]
  /\ result' = [result EXCEPT ![c] = r]

\* sendInteractiveMessage up to its first suspension, the first import()
StartsImporting(c) ==
  /\ pc' = [pc EXCEPT ![c] = "import1"]
  /\ probes' = [probes EXCEPT ![c] = <<Providers[1]>>]
  /\ baileysModules' = [baileysModules EXCEPT ![c] = <<>>]
  /\ UNCHANGED <<result, generated, relayed>>

\* mutant: the validation result is computed but not acted on
sendInteractiveButtonsBasic_IgnoresInvalid(c, config, buttons) ==
  /\ pc[c] = "idle"
  /\ LET validation == validateInteractiveMessage(config, buttons)
         normalizedButtons == buildInteractiveButtons(buttons)
         messageContent ==
           IF normalizedButtons.outcome = "threw" THEN normalizedButtons
           ELSE buildMessageContent(config, normalizedButtons.value)
     IN IF validation.outcome = "threw"
        THEN /\ Ends(c, validation)
             /\ UNCHANGED <<baileysModules, probes, generated, relayed>>
        ELSE IF messageContent.outcome = "threw"
        THEN /\ Ends(c, messageContent)
             /\ UNCHANGED <<baileysModules, probes, generated, relayed>>
        ELSE StartsImporting(c)

\* the body of sendInteractiveButtonsBasic up to its first suspension or its
\* end; the slot records which exported function the caller invoked
sendInteractiveButtonsBasic(c, config, buttons) ==
  /\ pc[c] = "idle"
  /\ LET validation == validateInteractiveMessage(config, buttons)
     IN IF validation.outcome = "threw"
        THEN /\ Ends(c, validation)
             /\ UNCHANGED <<baileysModules, probes, generated, relayed>>
        ELSE IF ~validation.value.isValid
        THEN /\ Ends(c, [outcome |-> "threw",
                         error |-> InteractiveValidationError(
                           "Invalid interactive message configuration",
                           "sendInteractiveButtonsBasic",
                           validation.value.errors,
                           validation.value.warnings,
                           Undefined)])
             /\ UNCHANGED <<baileysModules, probes, generated, relayed>>
        ELSE LET normalizedButtons == buildInteractiveButtons(buttons)
                 messageContent ==
                   IF normalizedButtons.outcome = "threw" THEN normalizedButtons
                   ELSE buildMessageContent(config, normalizedButtons.value)
             IN IF messageContent.outcome = "threw"
                THEN /\ Ends(c, messageContent)
                     /\ UNCHANGED <<baileysModules, probes, generated, relayed>>
                ELSE StartsImporting(c)

\* a direct call of the exported sendInteractiveButtonsBasic
CallSendInteractiveButtonsBasic(c, config, buttons) ==
  /\ op' = [op EXCEPT ![c] = "sendInteractiveButtonsBasic"]
  /\ args' = [args EXCEPT ![c] =
                [jid |-> Jid, config |-> config, buttons |-> buttons,
                 format |-> CURRENT]]
  /\ sendInteractiveButtonsBasic(c, config, buttons)

\* mutant: the footer is not copied into the config
sendButtons_DropsFooter(c, buttons, body, footer) ==
  LET config == Literal([body |-> body])
  IN /\ op' = [op EXCEPT ![c] = "sendButtons"]
     /\ args' = [args EXCEPT ![c] =
                   [jid |-> Jid, body |-> body, footer |-> footer,
                    config |-> config, buttons |-> buttons,
                    format |-> CURRENT]]
     /\ sendInteractiveButtonsBasic(c, config, buttons)

\* sendButtons builds the config {body, footer} and delegates; the slot keeps
\* its parameters next to the params object it passes on
sendButtons(c, buttons, body, footer) ==
  LET config == Literal([body |-> body, footer |-> footer])
  IN /\ op' = [op EXCEPT ![c] = "sendButtons"]
     /\ args' = [args EXCEPT ![c] =
                   [jid |-> Jid, body |-> body, footer |-> footer,
                    config |-> config, buttons |-> buttons,
                    format |-> CURRENT]]
     /\ sendInteractiveButtonsBasic(c, config, buttons)

\* mutant: the lower-level function validates like the basic helper
sendInteractiveMessage_Validates(c, config, buttons, format) ==
  /\ pc[c] = "idle"
  /\ op' = [op EXCEPT ![c] = "sendInteractiveMessage"]
  /\ args' = [args EXCEPT ![c] =
                [jid |-> Jid, config |-> config, buttons |-> buttons,
                 format |-> IF format = Undefined THEN CURRENT ELSE format]]
  /\ sendInteractiveButtonsBasic(c, config, buttons)

sendInteractiveMessage(c, config, buttons, format) ==
  /\ pc[c] = "idle"
  /\ op' = [op EXCEPT ![c] = "sendInteractiveMessage"]
  /\ args' = [args EXCEPT ![c] =
                [jid |-> Jid, config |-> config, buttons |-> buttons,
                 format |-> IF format = Undefined THEN CURRENT ELSE format]]
  /\ StartsImporting(c)

\* what generateWAMessageFromContent of the transport library returns
GeneratedMessage(jid, content) ==
  [key |-> [remoteJid |-> jid, fromMe |-> TRUE], message |-> content]

\* mutant: the params are kept in a module-level variable that every call
\* overwrites, so the message is built from the params of the last call
AfterImport_SharedParams(c, modules) ==
  IF Len(modules) = 0
  THEN /\ Ends(c, [outcome |-> "threw",
                   error |-> [name |-> "Error",
                              message |-> "No Baileys module found. Please install baileys, @whiskeysockets/baileys, or @adiwajshing/baileys"]])
       /\ UNCHANGED <<generated, relayed>>
  ELSE LET baileys == modules[1]
           last == CHOOSE d \in CallIds :
                     /\ pc[d] \notin {"idle", "done"}
                     /\ \A e \in CallIds : pc[e] \notin {"idle", "done"} => e <= d
           a == args[last]
           normalizedButtons ==
             IF a.format = LEGACY THEN Returned(a.buttons)
             ELSE buildInteractiveButtons(a.buttons)
           messageContent ==
             IF normalizedButtons.outcome = "threw" THEN normalizedButtons
             ELSE buildMessageContent(a.config, normalizedButtons.value)
           message == GeneratedMessage(a.jid, messageContent.value)
       IN IF messageContent.outcome = "threw"
          THEN /\ Ends(c, messageContent)
               /\ UNCHANGED <<generated, relayed>>
          ELSE /\ generated' = [generated EXCEPT ![c] =
                    Append(@, [module |-> baileys, jid |-> a.jid,
                               content |-> messageContent.value,
                               options |-> [ephemeralExpiration |->
                                              EphemeralExpiration],
                               outcome |-> "returned"])]
               /\ relayed' = [relayed EXCEPT ![c] =
                    Append(@, [jid |-> a.jid, key |-> message.key,
                               options |-> [additionalNodes |->
                                              <<message.message>>],
                               outcome |-> "pending"])]
               /\ pc' = [pc EXCEPT ![c] = "relaying"]
               /\ UNCHANGED result

\* sendInteractiveMessage from the return of importBaileysModules up to its
\* next suspension (the relayMessage promise) or its end
AfterImport(c, modules) ==
  IF Len(modules) = 0
  THEN /\ Ends(c, [outcome |-> "threw",
                   error |-> [name |-> "Error",
                              message |-> "No Baileys module found. Please install baileys, @whiskeysockets/baileys, or @adiwajshing/baileys"]])
       /\ UNCHANGED <<generated, relayed>>
  ELSE LET baileys == modules[1]
           a == args[c]
           normalizedButtons ==
             IF a.format = LEGACY THEN Returned(a.buttons)
             ELSE buildInteractiveButtons(a.buttons)
           messageContent ==
             IF normalizedButtons.outcome = "threw" THEN normalizedButtons
             ELSE buildMessageContent(a.config, normalizedButtons.value)
       IN IF messageContent.outcome = "threw"
          THEN /\ Ends(c, messageContent)
               /\ UNCHANGED <<generated, relayed>>
          ELSE \/ /\ generated' = [generated EXCEPT ![c] =
                        Append(@, [module |-> baileys, jid |-> a.jid,
                                   content |-> messageContent.value,
                                   options |-> [ephemeralExpiration |->
                                                  EphemeralExpiration],
                                   outcome |-> "threw"])]
                  /\ Ends(c, Threw("GenerateError"))
                  /\ UNCHANGED relayed
               \/ LET message == GeneratedMessage(a.jid, messageContent.value)
                  IN /\ generated' = [generated EXCEPT ![c] =
                          Append(@, [module |-> baileys, jid |-> a.jid,
                                     content |-> messageContent.value,
                                     options |-> [ephemeralExpiration |->
                                                    EphemeralExpiration],
                                     outcome |-> "returned"])]
                     /\ relayed' = [relayed EXCEPT ![c] =
                          Append(@, [jid |-> a.jid, key |-> message.key,
                                     options |-> [additionalNodes |->
                                                    <<message.message>>],
                                     outcome |-> "pending"])]
                     /\ pc' = [pc EXCEPT ![c] = "relaying"]
                     /\ UNCHANGED result

ImportIndex(p) ==
  CASE p = "import1" -> 1 [] p = "import2" -> 2 [] p = "import3" -> 3

\* mutant: import() is awaited outside a try block, so a rejection ends the call
ImportSettles_NoCatch(c, resolves) ==
  /\ pc[c] \in {"import1", "import2", "import3"}
  /\ LET i == ImportIndex(pc[c])
         modules == Append(baileysModules[c], Providers[i])
     IN IF ~resolves
        THEN /\ Ends(c, Threw("ImportError"))
             /\ UNCHANGED <<baileysModules, probes, generated, relayed>>
        ELSE /\ baileysModules' = [baileysModules EXCEPT ![c] = modules]
             /\ IF i < Len(Providers)
                THEN /\ probes' = [probes EXCEPT ![c] = Append(@, Providers[i + 1])]
                     /\ pc' = [pc EXCEPT ![c] =
                                 IF i = 1 THEN "import2" ELSE "import3"]
                     /\ UNCHANGED <<result, generated, relayed>>
                ELSE /\ AfterImport(c, modules)
                     /\ UNCHANGED probes
  /\ UNCHANGED <<op, args>>

\* importBaileysModules: the pending import() of provider i settles; a
\* rejection is swallowed by the empty catch and the next provider is tried
ImportSettles(c, resolves) ==
  /\ pc[c] \in {"import1", "import2", "import3"}
  /\ LET i == ImportIndex(pc[c])
         modules == IF resolves THEN Append(baileysModules[c], Providers[i])
                    ELSE baileysModules[c]
     IN /\ baileysModules' = [baileysModules EXCEPT ![c] = modules]
        /\ IF i < Len(Providers)
           THEN /\ probes' = [probes EXCEPT ![c] = Append(@, Providers[i + 1])]
                /\ pc' = [pc EXCEPT ![c] =
                            IF i = 1 THEN "import2" ELSE "import3"]
                /\ UNCHANGED <<result, generated, relayed>>
           ELSE /\ AfterImport(c, modules)
                /\ UNCHANGED probes
  /\ UNCHANGED <<op, args>>

\* mutant: a rejected relay is attempted once more
RelaySettles_Retries(c, fulfilled) ==
  /\ pc[c] = "relaying"
  /\ IF fulfilled \/ Len(relayed[c]) > 1
     THEN /\ relayed' = [relayed EXCEPT ![c][Len(relayed[c])].outcome =
                           IF fulfilled THEN "fulfilled" ELSE "rejected"]
          /\ Ends(c, IF fulfilled THEN Returned([relayed |-> TRUE])
                     ELSE Threw("RelayError"))
     ELSE /\ relayed' = [relayed EXCEPT ![c] =
                           Append([@ EXCEPT ![1].outcome = "rejected"],
                                  [@[1] EXCEPT !.outcome = "pending"])]
          /\ UNCHANGED <<pc, result>>
  /\ UNCHANGED <<op, args, baileysModules, probes, generated>>

\* the promise of socket.relayMessage settles and the call ends with it; the
\* socket's record of the relay keeps how it settled
RelaySettles(c, fulfilled) ==
  /\ pc[c] = "relaying"
  /\ relayed' = [relayed EXCEPT ![c][Len(relayed[c])].outcome =
                   IF fulfilled THEN "fulfilled" ELSE "rejected"]
  /\ Ends(c, IF fulfilled THEN Returned([relayed |-> TRUE])
             ELSE Threw("RelayError"))
  /\ UNCHANGED <<op, args, baileysModules, probes, generated>>

(***************************************************************************)
(* Specification.                                                          *)
(***************************************************************************)
\* a call starts only when no slot is occupied, so the inputs are drawn
\* only then
Next ==
  \/ AllIdle /\ \E c \in CallIds, id \in IdValues : CallIsValidButtonId(c, id)
  \/ AllIdle /\ \E c \in CallIds, button \in ClassifierPool :
       CallGetButtonType(c, button)
  \/ AllIdle /\ \E c \in CallIds, config \in ConfigValues,
                   buttons \in ButtonsValues :
       CallValidateInteractiveMessage(c, config, buttons)
  \/ AllIdle /\ \E c \in CallIds, config \in ConfigValues,
                   buttons \in ButtonsValues :
       CallSendInteractiveButtonsBasic(c, config, buttons)
  \/ AllIdle /\ \E c \in CallIds, buttons \in SendButtonsValues,
                   body \in SendBodyValues, footer \in SendFooterValues :
       sendButtons(c, buttons, body, footer)
  \/ AllIdle /\ \E c \in CallIds, config \in SendConfigValues,
                   buttons \in SendButtonsValues, format \in FormatValues :
       sendInteractiveMessage(c, config, buttons, format)
  \/ AllIdle /\ \E c \in CallIds, buttons \in NormalizeValues :
       CallBuildInteractiveButtons(c, buttons)
  \/ AllIdle /\ \E c \in CallIds, config \in AssembleConfigValues,
                    buttons \in AssembleButtonsValues :
       CallBuildMessageContent(c, config, buttons)
  \/ AllIdle /\ \E c \in CallIds, this \in ErrorValues, context \in ContextValues :
       CallAddContext(c, this, context)
  \/ \E c \in CallIds : Returns(c)
  \/ \E c \in CallIds, resolves \in BOOLEAN : ImportSettles(c, resolves)
  \/ \E c \in CallIds, fulfilled \in BOOLEAN : RelaySettles(c, fulfilled)
  \/ \E c \in CallIds : Settle(c)

Spec == Init /\ [][Next]_vars

\* send calls from independent call sites: a call starts in any free slot
\* while the calls of the other slots are suspended at an await; the three
\* providers are installed, so every import() resolves
ConcurrentNext ==
  \/ \E c \in CallIds, params \in ConcurrentSendValues :
       CallSendInteractiveButtonsBasic(c, params.config, params.buttons)
  \/ \E c \in CallIds, params \in ConcurrentSendValues,
         format \in {Undefined, LEGACY} :
       sendInteractiveMessage(c, params.config, params.buttons, format)
  \/ \E c \in CallIds : ImportSettles(c, TRUE)
  \/ \E c \in CallIds, fulfilled \in BOOLEAN : RelaySettles(c, fulfilled)
  \/ \E c \in CallIds : Settle(c)

ConcurrentSpec == Init /\ [][ConcurrentNext]_vars

(***************************************************************************)
(* Properties.                                                             *)
(***************************************************************************)
NonEmptyString(v) == v.k = "string" /\ Len(v.s) >= 1

Paths(errors) == {errors[i].path : i \in 1..Len(errors)}

\* slot c holds a finished call of the validator that returned a result
ValidateReturned(c) ==
  /\ op[c] = "validateInteractiveMessage"
  /\ pc[c] = "done"
  /\ result[c].outcome = "returned"

\* the ID rule: a string of 1 to 64 characters
IdRule(v) == v.k = "string" /\ Len(v.s) >= 1 /\ Len(v.s) <= 64

\* the rules that button number i (0-based) violates, each named by the path
\* its error is to be reported at
ViolatedButtonRules(button, i) ==
  (IF IdRule(Get(button, "id")) THEN {} ELSE {ButtonPath(i, "id")})
  \cup (IF NonEmptyString(Get(button, "title")) THEN {}
        ELSE {ButtonPath(i, "title")})
  \cup (IF getButtonType(button) = CTA_URL
           /\ ~NonEmptyString(Get(button, "url"))
        THEN {ButtonPath(i, "url")} ELSE {})
  \cup (IF getButtonType(button) = CTA_CALL
           /\ ~PhonePatternTest(Get(button, "phoneNumber"))
        THEN {ButtonPath(i, "phoneNumber")} ELSE {})
  \cup (IF getButtonType(button) = CTA_COPY
           /\ ~NonEmptyString(Get(button, "copyText"))
        THEN {ButtonPath(i, "copyText")} ELSE {})

ViolatedRules(config, items) ==
  (IF NonEmptyString(Get(config, "body")) THEN {} ELSE {"body"})
  \cup (IF Len(items) = 0 THEN {"buttons"} ELSE {})
  \cup UNION {ViolatedButtonRules(items[i], i - 1) : i \in 1..Len(items)}

\* C1: whenever the validator returns isValid = false for the arguments of a
\* sendInteractiveButtonsBasic call, the call has ended by raising one
\* InteractiveValidationError that carries the validator's complete errors
\* and warnings, and the invocation made no import() probe, no
\* generateWAMessageFromContent call and no socket.relayMessage call.
C1_InvalidRaisesAndStops ==
  \A c \in CallIds :
    op[c] = "sendInteractiveButtonsBasic" =>
      LET validation ==
            validateInteractiveMessage(args[c].config, args[c].buttons)
      IN (validation.outcome = "returned" /\ ~validation.value.isValid) =>
           /\ pc[c] = "done"
           /\ result[c].outcome = "threw"
           /\ result[c].error.name = "InteractiveValidationError"
           /\ result[c].error.errors = validation.value.errors
           /\ result[c].error.warnings = validation.value.warnings
           /\ probes[c] = <<>>
           /\ generated[c] = <<>>
           /\ relayed[c] = <<>>

\* a sendInteractiveButtonsBasic call raised the validation error for an
\* input with several problems
C1_Witness ==
  \E c \in CallIds :
    /\ op[c] = "sendInteractiveButtonsBasic"
    /\ pc[c] = "done"
    /\ result[c].outcome = "threw"
    /\ result[c].error.name = "InteractiveValidationError"
    /\ Len(result[c].error.errors) >= 2
    /\ probes[c] = <<>>

\* C2: validateInteractiveMessage never raises: every finished call of it,
\* whatever the config and the buttons value, has returned a result.
C2_ValidatorNeverRaises ==
  \A c \in CallIds :
    (op[c] = "validateInteractiveMessage" /\ pc[c] = "done") =>
      result[c].outcome = "returned"

\* C3: the validator never short-circuits: the returned errors hold an entry
\* at the path of every violated rule (body, buttons, and id, title and the
\* type-specific rule of every button), so there are at least as many errors
\* as buttons that violate a rule, whether or not the body is valid.
C3_EveryViolationReported ==
  \A c \in CallIds :
    ValidateReturned(c) =>
      LET items == args[c].buttons.items
          errors == result[c].value.errors
          invalid == {i \in 1..Len(items) :
                        ViolatedButtonRules(items[i], i - 1) # {}}
      IN /\ ViolatedRules(args[c].config, items) \subseteq Paths(errors)
         /\ Len(errors) >= Cardinality(ViolatedRules(args[c].config, items))
         /\ Len(errors) >= Cardinality(invalid)

\* the validator returned for an invalid body and two buttons that each
\* violate a rule, with an error reported for the second button
C3_Witness ==
  \E c \in CallIds :
    /\ ValidateReturned(c)
    /\ Len(args[c].buttons.items) = 2
    /\ \A i \in 1..2 : ViolatedButtonRules(args[c].buttons.items[i], i - 1) # {}
    /\ "body" \in Paths(result[c].value.errors)
    /\ Paths(result[c].value.errors)
         \cap ViolatedButtonRules(args[c].buttons.items[2], 1) # {}

\* C4: in every result the validator returns, isValid is true exactly when
\* errors is empty, and warnings is the empty sequence.
C4_IsValidIffNoErrors ==
  \A c \in CallIds :
    ValidateReturned(c) =>
      /\ result[c].value.isValid = (result[c].value.errors = <<>>)
      /\ result[c].value.warnings = <<>>

\* the validator returned a result that has exactly one error
C4_Witness ==
  \E c \in CallIds :
    /\ ValidateReturned(c)
    /\ Len(result[c].value.errors) = 1
    /\ ~result[c].value.isValid

\* C5: every button list the validator declares valid has pairwise distinct
\* id values.
C5_ValidListHasDistinctIds ==
  \A c \in CallIds :
    (ValidateReturned(c) /\ result[c].value.isValid) =>
      LET items == args[c].buttons.items
      IN \A i, j \in 1..Len(items) :
           i # j => Get(items[i], "id") # Get(items[j], "id")

\* C6: isValidButtonId(v) is true exactly when v is a string of 1 to 64
\* characters; every other string and every non-string value is invalid.
C6_IdRule ==
  \A c \in CallIds :
    (op[c] = "isValidButtonId" /\ pc[c] = "done") =>
      /\ result[c].outcome = "returned"
      /\ result[c].value = Bool(IdRule(args[c].id))

\* isValidButtonId accepted an id of exactly 64 characters
C6_Witness ==
  \E c \in CallIds :
    /\ op[c] = "isValidButtonId"
    /\ pc[c] = "done"
    /\ args[c].id.k = "string"
    /\ Len(args[c].id.s) = 64
    /\ result[c].value = Bool(TRUE)

\* C7: for a button classified as call-action the validator reports an error
\* at buttons[i].phoneNumber exactly when phoneNumber does not match
\* ^\+?[1-9]\d{1,14}$; +1234567890 and +18005550123 are accepted, and 123,
\* abc and invalid-phone are each rejected.
C7_PhoneRule ==
  \A c \in CallIds :
    ValidateReturned(c) =>
      LET items == args[c].buttons.items
      IN \A i \in 1..Len(items) :
           getButtonType(items[i]) = CTA_CALL =>
             LET phoneNumber == Get(items[i], "phoneNumber")
                 rejected == ButtonPath(i - 1, "phoneNumber")
                               \in Paths(result[c].value.errors)
             IN /\ rejected <=> ~PhonePatternTest(phoneNumber)
                /\ phoneNumber \in {Phone1234567890, Phone18005550123}
                     => ~rejected
                /\ phoneNumber \in {Phone123, PhoneAbc, PhoneInvalid}
                     => rejected

TypeSpecificFields == {"url", "phoneNumber", "copyText"}

C9_EmptyButtons ==
  \A c \in CallIds :
    (/\ op[c] = "validateInteractiveMessage"
     /\ pc[c] = "done"
     /\ ~Nullish(args[c].config)
     /\ NonEmptyString(Get(args[c].config, "body"))
     /\ args[c].buttons = Arr(<<>>)) =>
      /\ result[c].outcome = "returned"
      /\ ~result[c].value.isValid
      /\ Len(result[c].value.errors) = 1
      /\ result[c].value.errors[1].path = "buttons"

\* the validator was called with a valid body and an empty button array
C9_Witness ==
  \E c \in CallIds :
    /\ ValidateReturned(c)
    /\ NonEmptyString(Get(args[c].config, "body"))
    /\ args[c].buttons = Arr(<<>>)
    /\ Paths(result[c].value.errors) = {"buttons"}

\* C10: for every object that carries a `type` field, getButtonType returns
\* the value of that field, whatever the value is and whatever other fields
\* the object has.
C10_ExplicitTypeVerbatim ==
  \A c \in CallIds :
    (/\ op[c] = "getButtonType"
     /\ pc[c] = "done"
     /\ args[c].button.k = "object"
     /\ "type" \in DOMAIN args[c].button.f) =>
      result[c].value = args[c].button.f["type"]

\* C10 as amended: for every object whose `type` field is truthy,
\* getButtonType returns the value of that field, whatever other fields the
\* object has.
C10_TruthyTypeVerbatim ==
  \A c \in CallIds :
    (/\ op[c] = "getButtonType"
     /\ pc[c] = "done"
     /\ args[c].button.k = "object"
     /\ "type" \in DOMAIN args[c].button.f
     /\ Truthy(args[c].button.f["type"])) =>
      /\ result[c].outcome = "returned"
      /\ result[c].value = args[c].button.f["type"]

\* getButtonType returned the explicit type of a button that also has a url
\* and a phoneNumber
C10_Witness ==
  \E c \in CallIds :
    /\ op[c] = "getButtonType"
    /\ pc[c] = "done"
    /\ args[c].button.k = "object"
    /\ {"type", "url", "phoneNumber"} \subseteq DOMAIN args[c].button.f
    /\ result[c].value = args[c].button.f["type"]
    /\ result[c].value \notin {CTA_URL, CTA_CALL}

\* the tags getButtonType detects, in the order of DetectedFields
DetectedTags ==
  <<CTA_URL, CTA_COPY, CTA_CALL, CTA_CATALOG, CTA_REMINDER,
    CTA_CANCEL_REMINDER, ADDRESS_MESSAGE, SINGLE_SELECT>>

\* the smallest element of a non-empty set of numbers
Least(S) == CHOOSE i \in S : \A j \in S : i <= j

\* slot c holds a finished call of getButtonType
ClassifierDone(c) == op[c] = "getButtonType" /\ pc[c] = "done"

\* C11: for every input without a `type` field getButtonType returns,
\* without raising, the tag of the first field present in the order url,
\* copyText, phoneNumber, catalogLink, reminderText, reminderId, addressId,
\* options, and quick_reply when none of them is present or the input is not
\* an object.
C11_FirstPresentField ==
  \A c \in CallIds :
    (ClassifierDone(c)
       /\ ~(args[c].button.k = "object" /\ "type" \in DOMAIN args[c].button.f)) =>
      LET button == args[c].button
          present == IF button.k # "object" THEN {}
                     ELSE {i \in 1..Len(DetectedFields) :
                             DetectedFields[i] \in DOMAIN button.f}
      IN /\ result[c].outcome = "returned"
         /\ result[c].value = IF present = {} THEN QUICK_REPLY
                              ELSE DetectedTags[Least(present)]

\* C11 as amended: for every input whose `type` is absent or falsy
\* getButtonType returns, without raising, the tag of the first field in the
\* order url, copyText, phoneNumber, catalogLink, reminderText, reminderId,
\* addressId, options whose value is truthy, and quick_reply when none of
\* them is truthy or the input is not an object.
C11_FirstTruthyField ==
  \A c \in CallIds :
    (ClassifierDone(c) /\ Falsy(Get(args[c].button, "type"))) =>
      LET button == args[c].button
          truthy == {i \in 1..Len(DetectedFields) :
                       Truthy(Get(button, DetectedFields[i]))}
      IN /\ result[c].outcome = "returned"
         /\ result[c].value = IF truthy = {} THEN QUICK_REPLY
                              ELSE DetectedTags[Least(truthy)]

\* getButtonType classified an input that has a copyText and a phoneNumber
\* and no type as cta_copy
C11_Witness ==
  \E c \in CallIds :
    /\ ClassifierDone(c)
    /\ args[c].button.k = "object"
    /\ DOMAIN args[c].button.f = {"copyText", "phoneNumber"}
    /\ Truthy(args[c].button.f["copyText"])
    /\ Truthy(args[c].button.f["phoneNumber"])
    /\ result[c].value = CTA_COPY

\* ---- the normalizer ----

\* a call of buildInteractiveButtons on an array has returned or thrown
NormalizerDone(c) ==
  /\ op[c] = "buildInteractiveButtons"
  /\ pc[c] = "done"
  /\ args[c].buttons.k = "array"

Input(c) == args[c].buttons.items

Output(c) == result[c].value.items

\* the entry carries the property, whatever its value
Has(b, name) == b.k = "object" /\ name \in DOMAIN b.f

\* the entry the normalizer makes of b when b is the only entry of its list
Alone(b) == buildInteractiveButtons(Arr(<<b>>)).value.items[1]

\* C12: buildInteractiveButtons returns a list as long as its input, and the
\* entry at each position is what the normalizer makes of the input entry at
\* that position alone: nothing is dropped, added, merged or reordered.
C12_OrderAndCountPreserved ==
  \A c \in CallIds :
    NormalizerDone(c) =>
      /\ result[c].outcome = "returned"
      /\ result[c].value.k = "array"
      /\ Len(Output(c)) = Len(Input(c))
      /\ \A i \in 1..Len(Input(c)) : Output(c)[i] = Alone(Input(c)[i])

C12_Witness ==
  \E c \in CallIds :
    /\ NormalizerDone(c)
    /\ Len(Input(c)) = 2
    /\ Input(c)[1] = Null
    /\ Has(Input(c)[2], "id")
    /\ Output(c)[1] = Null
    /\ Output(c)[2] # Input(c)[2]

\* rule 1 of the normalizer as the code tests it
Canonical(b) == Truthy(Get(b, "name")) /\ Truthy(Get(b, "buttonParamsJson"))

\* C13 as stated: every entry that carries both name and buttonParamsJson is
\* returned unchanged, whatever other fields it has, and normalizing the
\* output entry again gives the same entry.
C13_CanonicalByPresence ==
  \A c \in CallIds :
    NormalizerDone(c) =>
      \A i \in 1..Len(Input(c)) :
        (Has(Input(c)[i], "name") /\ Has(Input(c)[i], "buttonParamsJson")) =>
          /\ Output(c)[i] = Input(c)[i]
          /\ Alone(Output(c)[i]) = Output(c)[i]

\* C13 amended: every entry whose name and buttonParamsJson are both truthy is
\* returned unchanged, whatever other fields it has, and normalizing the
\* output entry again gives the same entry.
C13_CanonicalUnchanged ==
  \A c \in CallIds :
    NormalizerDone(c) =>
      \A i \in 1..Len(Input(c)) :
        Canonical(Input(c)[i]) =>
          /\ Output(c)[i] = Input(c)[i]
          /\ Alone(Output(c)[i]) = Output(c)[i]

C13_Witness ==
  \E c \in CallIds :
    /\ NormalizerDone(c)
    /\ Len(Input(c)) = 1
    /\ Canonical(Input(c)[1])
    /\ Has(Input(c)[1], "id")
    /\ Has(Input(c)[1], "title")
    /\ Output(c)[1] = Input(c)[1]

\* a ?? b
Coalesce(a, b) == IF Nullish(a) THEN b ELSE a

\* C14 as stated: every entry that does not carry name and buttonParamsJson
\* and carries id and title becomes {name: getButtonType(entry),
\* buttonParamsJson: JSON({id, title, subtitle ?? null, disabled ?? false})},
\* so a supplied subtitle or disabled value is kept.
C14_LegacyNullishDefaults ==
  \A c \in CallIds :
    NormalizerDone(c) =>
      \A i \in 1..Len(Input(c)) :
        LET b == Input(c)[i]
        IN (/\ ~(Has(b, "name") /\ Has(b, "buttonParamsJson"))
            /\ Has(b, "id")
            /\ Has(b, "title")) =>
             Output(c)[i] =
               Obj([name |-> getButtonType(b),
                    buttonParamsJson |-> JSONstringify(Obj(
                      [id |-> Get(b, "id"),
                       title |-> Get(b, "title"),
                       subtitle |-> Coalesce(Get(b, "subtitle"), Null),
                       disabled |-> Coalesce(Get(b, "disabled"), Bool(FALSE))]))])

\* C14 amended: every entry that is not canonical and whose id and title are
\* both truthy becomes {name: getButtonType(entry), buttonParamsJson:
\* JSON({id, title, subtitle, disabled})}, where a truthy subtitle or disabled
\* value is kept and a falsy one becomes null, respectively false.
C14_LegacyTruthyDefaults ==
  \A c \in CallIds :
    NormalizerDone(c) =>
      \A i \in 1..Len(Input(c)) :
        LET b == Input(c)[i]
        IN (/\ ~Canonical(b)
            /\ Truthy(Get(b, "id"))
            /\ Truthy(Get(b, "title"))) =>
             Output(c)[i] =
               Obj([name |-> getButtonType(b),
                    buttonParamsJson |-> JSONstringify(Obj(
                      [id |-> Get(b, "id"),
                       title |-> Get(b, "title"),
                       subtitle |-> IF Truthy(Get(b, "subtitle"))
                                    THEN Get(b, "subtitle") ELSE Null,
                       disabled |-> IF Truthy(Get(b, "disabled"))
                                    THEN Get(b, "disabled") ELSE Bool(FALSE)]))])

C14_Witness ==
  \E c \in CallIds :
    /\ NormalizerDone(c)
    /\ Len(Input(c)) = 1
    /\ ~Canonical(Input(c)[1])
    /\ Get(Input(c)[1], "id") = StrA
    /\ Get(Input(c)[1], "title") = TitleA
    /\ Get(Input(c)[1], "subtitle") = Str(<<"s">>)
    /\ Get(Input(c)[1], "disabled") = Bool(TRUE)
    /\ Get(Output(c)[1], "name") = QUICK_REPLY
    /\ Get(Output(c)[1], "buttonParamsJson") # Undefined

\* C15: every entry that rules 1 and 2 do not handle and whose buttonId and
\* buttonText are set becomes an entry whose params have id = buttonId and
\* title = buttonText.displayText when buttonText is an object, and title =
\* buttonText itself only when buttonText is not an object; the name,
\* subtitle and disabled are built as in rule 2.
C15_OldShapeTitle ==
  \A c \in CallIds :
    NormalizerDone(c) =>
      \A i \in 1..Len(Input(c)) :
        LET b == Input(c)[i]
            buttonText == Get(b, "buttonText")
        IN (/\ ~Canonical(b)
            /\ ~(Has(b, "name") /\ Has(b, "buttonParamsJson"))
            /\ ~(Has(b, "id") /\ Has(b, "title"))
            /\ Truthy(Get(b, "buttonId"))
            /\ Truthy(buttonText)) =>
             Output(c)[i] =
               Obj([name |-> getButtonType(b),
                    buttonParamsJson |-> JSONstringify(Obj(
                      [id |-> Get(b, "buttonId"),
                       title |-> IF buttonText.k = "object"
                                 THEN Get(buttonText, "displayText")
                                 ELSE buttonText,
                       subtitle |-> IF Truthy(Get(b, "subtitle"))
                                    THEN Get(b, "subtitle") ELSE Null,
                       disabled |-> IF Truthy(Get(b, "disabled"))
                                    THEN Get(b, "disabled") ELSE Bool(FALSE)]))])

Pure == {"buildInteractiveButtons", "validateInteractiveMessage",
         "buildMessageContent"}

AssemblerDone(c) ==
  /\ op[c] = "buildMessageContent"
  /\ pc[c] = "done"
  /\ result[c].outcome = "returned"

Params(c) == result[c].value.interactive.nativeFlow.messageParams

\* the optional config field holds a value that the `if (config.field)`
\* tests take: not absent, not null, not the empty string
IsSet(c, field) == Truthy(Get(args[c].config, field))

\* C18: in every envelope built by buildMessageContent,
\* messageParams.body.text equals config.body, and messageParams.footer is
\* present, with text = config.footer, if and only if config.footer is set.
C18_BodyAndFooter ==
  \A c \in CallIds :
    AssemblerDone(c) =>
      /\ "body" \in DOMAIN Params(c)
      /\ Params(c)["body"] = [text |-> Get(args[c].config, "body")]
      /\ "footer" \in DOMAIN Params(c) <=> IsSet(c, "footer")
      /\ IsSet(c, "footer") =>
            Params(c)["footer"] = [text |-> Get(args[c].config, "footer")]

C18_Witness ==
  \E c \in CallIds :
    /\ AssemblerDone(c)
    /\ Get(args[c].config, "body") = BodyX
    /\ Get(args[c].config, "footer") = Str(<<"f">>)
    /\ Params(c)["footer"] = [text |-> Str(<<"f">>)]

\* C19 as stated: when config.headerText is set and config.headerMedia is
\* not, messageParams.header is exactly {type: config.headerType ?? 1, text:
\* config.headerText}, so any supplied headerType number is used as given and
\* 1 only when headerType is absent; when neither is set there is no header.
C19_TextHeaderNullishDefault ==
  \A c \in CallIds :
    (AssemblerDone(c) /\ ~IsSet(c, "headerMedia")) =>
      IF IsSet(c, "headerText")
      THEN /\ "header" \in DOMAIN Params(c)
           /\ DOMAIN Params(c)["header"] = {"type", "text"}
           /\ Params(c)["header"]["type"] =
                Coalesce(Get(args[c].config, "headerType"), Num(1))
           /\ Params(c)["header"]["text"] = Get(args[c].config, "headerText")
      ELSE "header" \notin DOMAIN Params(c)

\* C19 amended: when config.headerText is set and config.headerMedia is not,
\* messageParams.header is exactly {type, text: config.headerText} where type
\* is config.headerType when that is a non-zero number and 1 when headerType
\* is absent or 0; when neither is set there is no header.
C19_TextHeader ==
  \A c \in CallIds :
    (AssemblerDone(c) /\ ~IsSet(c, "headerMedia")) =>
      IF IsSet(c, "headerText")
      THEN /\ "header" \in DOMAIN Params(c)
           /\ DOMAIN Params(c)["header"] = {"type", "text"}
           /\ Params(c)["header"]["type"] =
                (IF Get(args[c].config, "headerType") \in {Undefined, Num(0)}
                 THEN Num(1) ELSE Get(args[c].config, "headerType"))
           /\ Params(c)["header"]["text"] = Get(args[c].config, "headerText")
      ELSE "header" \notin DOMAIN Params(c)

C19_Witness ==
  \E c \in CallIds :
    /\ AssemblerDone(c)
    /\ ~IsSet(c, "headerMedia")
    /\ Get(args[c].config, "headerText") = Str(<<"H">>)
    /\ Get(args[c].config, "headerType") = Num(7)
    /\ Params(c)["header"]["type"] = Num(7)

\* the numeric code of a media type
MediaCode(mediaType) ==
  CASE mediaType = Str(<<"i", "m", "a", "g", "e">>) -> Num(1)
    [] mediaType = Str(<<"v", "i", "d", "e", "o">>) -> Num(2)
    [] mediaType = Str(<<"d", "o", "c", "u", "m", "e", "n", "t">>) -> Num(3)
    [] OTHER -> Num(3)

\* C20: when config.headerMedia is set it overrides any text header:
\* messageParams.header is {type: code, text: config.headerText ?? "",
\* media: {url: mediaUrl, caption: mediaCaption ?? ""}} with code 1 for
\* image, 2 for video, 3 for document and for any unrecognised media type,
\* whatever config.headerType and config.headerText are.
C20_MediaHeaderOverrides ==
  \A c \in CallIds :
    (AssemblerDone(c) /\ IsSet(c, "headerMedia")) =>
      LET media == Get(args[c].config, "headerMedia")
          header == Params(c)["header"]
      IN /\ "header" \in DOMAIN Params(c)
         /\ DOMAIN header = {"type", "text", "media"}
         /\ header["type"] = MediaCode(Get(media, "mediaType"))
         /\ header["text"] = Coalesce(Get(args[c].config, "headerText"), Str(<<>>))
         /\ header["media"] =
              [url |-> Get(media, "mediaUrl"),
               caption |-> Coalesce(Get(media, "mediaCaption"), Str(<<>>))]

C20_Witness ==
  \E c \in CallIds :
    /\ AssemblerDone(c)
    /\ Get(args[c].config, "headerText") = Str(<<"H">>)
    /\ Get(args[c].config, "headerType") = Num(7)
    /\ Get(Get(args[c].config, "headerMedia"), "mediaType") =
         Str(<<"v", "i", "d", "e", "o">>)
    /\ Params(c)["header"]["type"] = Num(2)
    /\ "media" \in DOMAIN Params(c)["header"]

\* C21: for every entry list given to buildMessageContent with a config,
\* passthrough entries of non-canonical shape included, the call returns one
\* envelope without raising, and interactive.nativeFlow.buttons has the
\* length and order of the input, each element holding exactly name and
\* buttonParamsJson of the corresponding entry.
C21_ProjectsEveryEntry ==
  \A c \in CallIds :
    (/\ op[c] = "buildMessageContent"
     /\ pc[c] = "done"
     /\ args[c].buttons.k = "array"
     /\ ~Nullish(args[c].config)) =>
      /\ result[c].outcome = "returned"
      /\ LET entries == args[c].buttons.items
             built == result[c].value.interactive.nativeFlow.buttons
         IN /\ Len(built) = Len(entries)
            /\ \A i \in 1..Len(entries) :
                 built[i] = [name |-> Get(entries[i], "name"),
                             buttonParamsJson |->
                               Get(entries[i], "buttonParamsJson")]

\* ---- the send calls ----

\* the slot runs sendInteractiveButtonsBasic, called directly or by sendButtons
BasicCall(c) == op[c] \in {"sendInteractiveButtonsBasic", "sendButtons"}

\* the validator returns isValid = true for the call's arguments
ValidArguments(c) ==
  LET validation == validateInteractiveMessage(args[c].config, args[c].buttons)
  IN validation.outcome = "returned" /\ validation.value.isValid

\* buildMessageContent(config, buildInteractiveButtons(buttons))
Envelope(config, buttons) ==
  buildMessageContent(config, buildInteractiveButtons(buttons).value).value

\* C22: in a call of sendInteractiveButtonsBasic, made directly or by
\* sendButtons with the config {body, footer}, the transport is handed an
\* envelope only when validation returned isValid = true; with valid
\* arguments and a provider that resolved it is handed exactly one, and that
\* envelope is buildMessageContent(config, buildInteractiveButtons(buttons)).
C22_OneEnvelopeAfterValidation ==
  \A c \in CallIds :
    BasicCall(c) =>
      /\ op[c] = "sendButtons" =>
            args[c].config =
              Literal([body |-> args[c].body, footer |-> args[c].footer])
      /\ Len(generated[c]) <= 1
      /\ Len(relayed[c]) <= 1
      /\ generated[c] # <<>> =>
            /\ ValidArguments(c)
            /\ generated[c][1].content = Envelope(args[c].config, args[c].buttons)
      /\ relayed[c] # <<>> =>
            /\ generated[c] # <<>>
            /\ relayed[c][1].options.additionalNodes =
                 <<Envelope(args[c].config, args[c].buttons)>>
      /\ (ValidArguments(c) /\ baileysModules[c] # <<>>
            /\ pc[c] \in {"relaying", "done"}) => Len(generated[c]) = 1
      /\ (pc[c] = "done" /\ result[c].outcome = "returned") =>
            Len(relayed[c]) = 1

C22_Witness ==
  \E c \in CallIds :
    /\ op[c] = "sendButtons"
    /\ pc[c] = "done"
    /\ result[c].outcome = "returned"
    /\ args[c].footer = Str(<<"f">>)
    /\ Len(args[c].buttons.items) = 2
    /\ Len(relayed[c]) = 1
    /\ "footer" \in DOMAIN generated[c][1].content.interactive.nativeFlow.messageParams

SendOps == {"sendInteractiveMessage", "sendInteractiveButtonsBasic", "sendButtons"}

\* C23: in one call of sendInteractiveMessage or sendInteractiveButtonsBasic
\* generateWAMessageFromContent and socket.relayMessage are each invoked at
\* most once; when generateWAMessageFromContent throws nothing is relayed and
\* the call fails with that failure, and when the relay is rejected the call
\* fails with that rejection, with no second delivery attempt.
C23_NoRetryNoInterception ==
  \A c \in CallIds :
    op[c] \in SendOps =>
      /\ Len(generated[c]) <= 1
      /\ Len(relayed[c]) <= 1
      /\ \A i \in 1..Len(generated[c]) :
           generated[c][i].outcome = "threw" =>
             /\ pc[c] = "done"
             /\ relayed[c] = <<>>
             /\ result[c] = Threw("GenerateError")
      /\ \A i \in 1..Len(relayed[c]) :
           /\ relayed[c][i].outcome = "pending" => pc[c] = "relaying"
           /\ relayed[c][i].outcome = "rejected" =>
                pc[c] = "done" /\ result[c] = Threw("RelayError")
           /\ relayed[c][i].outcome = "fulfilled" =>
                pc[c] = "done" /\ result[c].outcome = "returned"

\* a relay was rejected and the call has failed with the rejection
C23_Witness ==
  \E c \in CallIds :
    /\ op[c] = "sendInteractiveMessage"
    /\ pc[c] = "done"
    /\ Len(relayed[c]) = 1
    /\ relayed[c][1].outcome = "rejected"
    /\ result[c] = Threw("RelayError")

\* the indices of the providers in the order the modules were collected
ProviderIndex(name) == CHOOSE i \in 1..Len(Providers) : Providers[i] = name

\* C24: the providers baileys, @whiskeysockets/baileys, @adiwajshing/baileys
\* are attempted in that order, each one whether or not an earlier one
\* resolved; the message is generated with the first one that resolved; when
\* none resolved the call fails with the one 'No Baileys module found' error
\* and nothing is generated or relayed.
C24_ProviderSelection ==
  \A c \in CallIds :
    op[c] \in SendOps =>
      /\ Len(probes[c]) <= Len(Providers)
      /\ \A i \in 1..Len(probes[c]) : probes[c][i] = Providers[i]
      /\ pc[c] \in {"import1", "import2", "import3"} =>
            Len(probes[c]) = ImportIndex(pc[c])
      /\ (pc[c] \in {"relaying", "done"} /\ probes[c] # <<>>) =>
            Len(probes[c]) = Len(Providers)
      /\ \A i, j \in 1..Len(baileysModules[c]) :
           i < j => ProviderIndex(baileysModules[c][i])
                      < ProviderIndex(baileysModules[c][j])
      /\ \A i \in 1..Len(generated[c]) :
           /\ baileysModules[c] # <<>>
           /\ generated[c][i].module = baileysModules[c][1]
      /\ (pc[c] = "done" /\ probes[c] # <<>> /\ baileysModules[c] = <<>>) =>
            /\ result[c].outcome = "threw"
            /\ result[c].error.name = "Error"
            /\ result[c].error.message = "No Baileys module found. Please install baileys, @whiskeysockets/baileys, or @adiwajshing/baileys"
            /\ generated[c] = <<>>
            /\ relayed[c] = <<>>

\* the first two providers failed to resolve and the third one was used
C24_Witness ==
  \E c \in CallIds :
    /\ op[c] \in SendOps
    /\ pc[c] = "done"
    /\ probes[c] = Providers
    /\ baileysModules[c] = <<Providers[3]>>
    /\ Len(generated[c]) = 1
    /\ generated[c][1].module = Providers[3]

\* ---- errors ----

AddContextDone(c) == op[c] = "addContext" /\ pc[c] = "done"

\* C25: e.addContext(c) returns a new InteractiveValidationError with message
\* = e.message + " in " + c and context = e.context + " -> " + c that carries
\* e's errors, warnings and example, and leaves e unchanged; on an error that
\* an earlier addContext(c1) returned, the context is ctx0 -> c1 -> c.
C25_AddContext ==
  /\ [](\A c \in CallIds :
          AddContextDone(c) =>
            LET e == args[c].this
                new == result[c].value
            IN /\ result[c].outcome = "returned"
               /\ new.name = "InteractiveValidationError"
               /\ new.message = e.message \o " in " \o args[c].context
               /\ new.context = e.context \o " -> " \o args[c].context
               /\ new.errors = e.errors
               /\ new.warnings = e.warnings
               /\ new.example = e.example
               /\ \A e0 \in ConstructedErrors, c1 \in ContextValues :
                    e = addContext(e0, c1) =>
                      new.context = e0.context \o " -> " \o c1
                                       \o " -> " \o args[c].context)
  /\ [][\A c \in CallIds :
         (op[c] = "addContext" /\ pc[c] = "running") => args'[c] = args[c]]_vars

\* a second addContext call has extended the chain of the first
C25_Witness ==
  \E c \in CallIds :
    /\ AddContextDone(c)
    /\ args[c].this.context = "config_validation -> nested_function"
    /\ args[c].this.example # Undefined
    /\ result[c].value.context = "config_validation -> nested_function -> outer"
    /\ result[c].value.message =
         "Invalid message configuration: body in nested_function in outer"

\* ---- concurrent calls ----

\* the envelope a send call builds from its own arguments
OwnEnvelope(a) ==
  IF a.format = LEGACY THEN buildMessageContent(a.config, a.buttons).value
  ELSE Envelope(a.config, a.buttons)

InFlight(c) == pc[c] \in {"import1", "import2", "import3", "relaying"}

\* C26: when send calls interleave at their suspension points, each call's
\* validation outcome and the envelope it hands to the transport are those
\* of its own arguments: what the call produces when it runs alone.
C26_CallsIndependent ==
  \A c \in CallIds :
    op[c] \in SendOps =>
      /\ (op[c] = "sendInteractiveButtonsBasic" /\ ~ValidArguments(c)) =>
            /\ pc[c] = "done"
            /\ result[c].outcome = "threw"
            /\ result[c].error.name = "InteractiveValidationError"
            /\ result[c].error.errors =
                 validateInteractiveMessage(args[c].config,
                                            args[c].buttons).value.errors
            /\ generated[c] = <<>>
      /\ (op[c] = "sendInteractiveButtonsBasic" /\ ValidArguments(c)) =>
            ~(result[c].outcome = "threw"
                /\ result[c].error.name = "InteractiveValidationError")
      /\ Len(generated[c]) <= 1
      /\ Len(relayed[c]) <= 1
      /\ \A i \in 1..Len(generated[c]) :
           /\ generated[c][i].jid = args[c].jid
           /\ generated[c][i].content = OwnEnvelope(args[c])
      /\ \A i \in 1..Len(relayed[c]) :
           relayed[c][i].options.additionalNodes = <<OwnEnvelope(args[c])>>

\* two calls with different arguments are suspended at the same time, the
\* first one after handing over its envelope
C26_Witness ==
  \E c, d \in CallIds :
    /\ c # d
    /\ pc[c] = "relaying"
    /\ InFlight(d)
    /\ args[c].config # args[d].config
    /\ args[c].buttons # args[d].buttons
    /\ Len(generated[c]) = 1
    /\ generated[c][1].content = OwnEnvelope(args[c])
    /\ generated[c][1].content # OwnEnvelope(args[d])

\* ---- the serialized params ----

\* the position of the quote that closes the string whose characters start
\* at position i of text
RECURSIVE StringEnd(_, _)
StringEnd(text, i) ==
  IF text[i] = "\"" THEN i
  ELSE IF text[i] = "\\" THEN StringEnd(text, i + 2)
  ELSE StringEnd(text, i + 1)

\* the keys of the outermost object of a JSON text: the strings at nesting
\* depth 1 that a colon follows; text is scanned from position i on, where
\* the nesting depth is depth
RECURSIVE TopLevelKeys(_, _, _)
TopLevelKeys(text, i, depth) ==
  IF i > Len(text) THEN {}
  ELSE CASE text[i] = "\"" ->
              LET j == StringEnd(text, i + 1)
              IN (IF depth = 1 /\ j < Len(text) /\ text[j + 1] = ":"
                  THEN {SubSeq(text, i + 1, j - 1)} ELSE {})
                 \cup TopLevelKeys(text, j + 1, depth)
         [] text[i] \in {"{", "["} -> TopLevelKeys(text, i + 1, depth + 1)
         [] text[i] \in {"}", "]"} -> TopLevelKeys(text, i + 1, depth - 1)
         [] OTHER -> TopLevelKeys(text, i + 1, depth)

ParamsKeys ==
  {<<"i", "d">>, <<"t", "i", "t", "l", "e">>,
   <<"s", "u", "b", "t", "i", "t", "l", "e">>,
   <<"d", "i", "s", "a", "b", "l", "e", "d">>}

\* the normalizer rebuilds the entry by rule 2 or rule 3
Rebuilt(b) ==
  /\ ~Canonical(b)
  /\ \/ Truthy(Get(b, "id")) /\ Truthy(Get(b, "title"))
     \/ Truthy(Get(b, "buttonId")) /\ Truthy(Get(b, "buttonText"))

\* the entry is {name, buttonParamsJson} with the tag of b as name and a
\* JSON object with exactly the keys id, title, subtitle, disabled
FourKeyEntry(entry, fields, b) ==
  /\ DOMAIN fields = {"name", "buttonParamsJson"}
  /\ fields["name"] = getButtonType(b)
  /\ fields["buttonParamsJson"].k = "string"
  /\ TopLevelKeys(fields["buttonParamsJson"].s, 1, 0) = ParamsKeys

\* C27: for every entry that rule 2 or rule 3 of buildInteractiveButtons
\* rebuilds, the object serialized in buttonParamsJson has exactly the keys
\* id, title, subtitle and disabled whatever the button's type; url,
\* phoneNumber, copyText and the other type-specific fields only determine
\* the entry's name, in the normalizer's result and in the envelope handed
\* to the transport.
C27_FourKeysOnly ==
  \A c \in CallIds :
    /\ NormalizerDone(c) =>
         \A i \in 1..Len(Input(c)) :
           Rebuilt(Input(c)[i]) =>
             /\ Output(c)[i].k = "object"
             /\ FourKeyEntry(Output(c)[i], Output(c)[i].f, Input(c)[i])
    /\ (op[c] \in SendOps /\ generated[c] # <<>> /\ args[c].format # LEGACY) =>
         LET built == generated[c][1].content.interactive.nativeFlow.buttons
         IN \A i \in 1..Len(built) :
              Rebuilt(args[c].buttons.items[i]) =>
                FourKeyEntry(built[i], built[i], args[c].buttons.items[i])

\* a url button was delivered: its entry is named cta_url
C27_Witness ==
  \E c \in CallIds :
    /\ op[c] \in SendOps
    /\ pc[c] = "done"
    /\ result[c].outcome = "returned"
    /\ Len(generated[c]) = 1
    /\ \E i \in 1..Len(args[c].buttons.items) :
         /\ Get(args[c].buttons.items[i], "url") = UrlX
         /\ ~Has(args[c].buttons.items[i], "type")
         /\ generated[c][1].content.interactive.nativeFlow.buttons[i].name
              = CTA_URL

\* ---- the lower-level send ----

\* the validator returns isValid = false for the call's arguments
InvalidArguments(c) ==
  LET validation == validateInteractiveMessage(args[c].config, args[c].buttons)
  IN validation.outcome = "returned" /\ ~validation.value.isValid

====
